---------------------------- MODULE Spec2Model ----------------------------
(***************************************************************************)
(* A model of the OpenGL grid demo: the free-flying camera (src/camera.go) *)
(* and the FPS counter and render loop (src/main.go).                      *)
(*                                                                         *)
(* Floating point values are modelled in fixed point:                      *)
(*   - angles (Yaw, Pitch) in tenths of a degree, cursor positions in      *)
(*     pixels, so that MouseSens = 0.1 degree/pixel is 1 tenth/pixel;      *)
(*   - direction vectors (Front, Right, Up) in 1/VecScale;                 *)
(*   - time in clock ticks of 1/TicksPerSecond second;                     *)
(*   - speeds in 1/(SpeedScale), positions in 1/(VecScale*SpeedScale);     *)
(*   - frame rates in 1/FpsScale frames per second.                        *)
(***************************************************************************)
EXTENDS Integers, Sequences, FiniteSets, TLC

VARIABLES
    c,          \* a Camera driven through its methods (src/camera.go)
    camera,     \* the camera of main(), driven by main's inline code
    fc,         \* the FPSCounter
    ret,        \* the value the last FPSCounter.Update returned
    clock,      \* glfw.GetTime(): ticks since glfw.Init
    lastFrame,  \* main's lastFrame
    deltaTime,  \* main's deltaTime
    shouldClose,\* the window's close flag
    pc,         \* where main() is: "init", "loop" or "done"
    op,         \* the operation that produced this state, with its inputs
    view,       \* the view matrices read for the current frame, <<>> when none
    n,          \* operations performed so far (bounds the exploration)
    hist        \* history: what the run has done so far

vars == <<c, camera, fc, ret, clock, lastFrame, deltaTime, shouldClose, pc, op,
          view, n, hist>>

---------------------------------------------------------------------------
(* Fixed-point scales and program constants *)

VecScale == 1000
TicksPerSecond == 240
SpeedScale == 2 * TicksPerSecond
PosScale == VecScale * SpeedScale
FpsScale == 1000

\* camera.go:36  MouseSens: 0.1 degree per pixel = 1 tenth of a degree per pixel
MouseSens == 1
\* camera.go:35  MovementSpeed: 2.5 units/s = 5/SpeedScale per tick
MovementSpeed == 5
\* camera.go:79-84  pitch limit 89.0 degrees
PitchLimit == 890
\* camera.go:33  initial yaw -90 degrees
InitialYaw == -900
\* main.go:126  the FPS window, 0.25 s
Window == TicksPerSecond \div 4

---------------------------------------------------------------------------
(* Arithmetic helpers *)

\* a/b rounded to the nearest integer, halves away from zero (b > 0)
RoundDiv(a, b) ==
    IF a >= 0 THEN (2 * a + b) \div (2 * b) ELSE -((2 * (-a) + b) \div (2 * b))

\* the product of two 1/VecScale values, in 1/VecScale
Scaled(a, b) == RoundDiv(a * b, VecScale)

RECURSIVE SqrtIter(_, _)
SqrtIter(a, x) ==
    LET y == (x + a \div x) \div 2
    IN  IF y >= x THEN x ELSE SqrtIter(a, y)

\* floor of the square root
ISqrt(a) == IF a <= 0 THEN 0 ELSE SqrtIter(a, a)

\* sine of x tenths of a degree, 0 <= x <= 1800, in 1/VecScale
SinHalfTurn(x) ==
    LET p == x * (1800 - x)
    IN  RoundDiv(p * VecScale, RoundDiv(4050000 - p, 4))

\* math.Sin(DegToRad(a)) for a in tenths of a degree
Sin(a) ==
    LET r == a % 3600
    IN  IF r <= 1800 THEN SinHalfTurn(r) ELSE -SinHalfTurn(r - 1800)

\* math.Cos(DegToRad(a)) for a in tenths of a degree
Cos(a) == Sin(a + 900)

---------------------------------------------------------------------------
(* mgl32.Vec3 *)

Vec3(x, y, z) == <<x, y, z>>

Add(a, b) == <<a[1] + b[1], a[2] + b[2], a[3] + b[3]>>

Sub(a, b) == <<a[1] - b[1], a[2] - b[2], a[3] - b[3]>>

\* Vec3.Mul: the vector times a scalar
Mul(v, s) == <<v[1] * s, v[2] * s, v[3] * s>>

\* Vec3.Cross of two 1/VecScale vectors, in 1/VecScale
Cross(a, b) ==
    <<RoundDiv(a[2] * b[3] - a[3] * b[2], VecScale),
      RoundDiv(a[3] * b[1] - a[1] * b[3], VecScale),
      RoundDiv(a[1] * b[2] - a[2] * b[1], VecScale)>>

Dot(a, b) == a[1] * b[1] + a[2] * b[2] + a[3] * b[3]

\* Vec3.Len
VLen(v) == ISqrt(Dot(v, v))

\* Vec3.Normalize, the result in 1/VecScale.  (mgl32 yields NaN components
\* for a zero vector; the model leaves the zero vector as it is.)
Normalize(v) ==
    LET l == VLen(v)
    IN  IF l = 0 THEN v
        ELSE <<RoundDiv(v[1] * VecScale, l), RoundDiv(v[2] * VecScale, l),
               RoundDiv(v[3] * VecScale, l)>>

WorldUp == Vec3(0, VecScale, 0)

---------------------------------------------------------------------------
(* Camera (src/camera.go) *)

\* updateCameraVectors: Front, Right and Up from Yaw and Pitch
updateCameraVectors(cam) ==
    LET front == Vec3(Scaled(Cos(cam.Yaw), Cos(cam.Pitch)),
                      Sin(cam.Pitch),
                      Scaled(Sin(cam.Yaw), Cos(cam.Pitch)))
        Front == Normalize(front)
        Right == Normalize(Cross(Front, WorldUp))
        Up    == Normalize(Cross(Right, Front))
    IN  [cam EXCEPT !.Front = Front, !.Right = Right, !.Up = Up]

\* NewCamera: the zero-valued fields (Up, Right, lastX, lastY) are Go's zero values
NewCamera ==
    updateCameraVectors(
        [Position   |-> Vec3(0, 0, 3 * PosScale),
         Front      |-> Vec3(0, 0, -VecScale),
         Up         |-> Vec3(0, 0, 0),
         Right      |-> Vec3(0, 0, 0),
         Yaw        |-> InitialYaw,
         Pitch      |-> 0,
         firstMouse |-> TRUE,
         lastX      |-> 0,
         lastY      |-> 0])

\* mgl32.LookAtV(eye, center, up), eye and center in position units: the
\* rotation rows s, u, -f (1/VecScale) and the translation column (1/PosScale)
LookAtV(eye, center, up) ==
    LET d == Sub(center, eye)
        f == Normalize(<<RoundDiv(d[1], SpeedScale), RoundDiv(d[2], SpeedScale),
                         RoundDiv(d[3], SpeedScale)>>)
        s == Normalize(Cross(f, Normalize(up)))
        u == Cross(s, f)
        e == <<RoundDiv(eye[1], VecScale), RoundDiv(eye[2], VecScale),
               RoundDiv(eye[3], VecScale)>>
    IN  [s |-> s, u |-> u, nf |-> Mul(f, -1),
         t |-> Vec3(-Dot(s, e), -Dot(u, e), Dot(f, e))]

\* Camera.GetViewMatrix; Front is added to Position in position units
GetViewMatrix(cam) ==
    LookAtV(cam.Position, Add(cam.Position, Mul(cam.Front, SpeedScale)), cam.Up)

\* A mutant of ConstrainPitch: the lower limit is forgotten
ConstrainPitchUpperOnly(pitch) ==
    IF pitch > PitchLimit THEN PitchLimit ELSE pitch

\* camera.go:79-84  the pitch constraint of HandleMouseMovement
ConstrainPitch(pitch) ==
    LET p == IF pitch > PitchLimit THEN PitchLimit ELSE pitch
    IN  IF p < -PitchLimit THEN -PitchLimit ELSE p

\* A mutant of HandleMouseMovement: the first sample is not treated apart
HandleMouseMovementNoBaseline(cam, xpos, ypos) ==
    LET xoffset == (xpos - cam.lastX) * MouseSens
        yoffset == (cam.lastY - ypos) * MouseSens
    IN  updateCameraVectors(
            [cam EXCEPT !.lastX = xpos, !.lastY = ypos, !.firstMouse = FALSE,
                        !.Yaw = @ + xoffset,
                        !.Pitch = ConstrainPitch(@ + yoffset)])

\* A mutant of HandleMouseMovement: the first-sample flag is never cleared
HandleMouseMovementKeepsFlag(cam, xpos, ypos) ==
    IF cam.firstMouse
    THEN [cam EXCEPT !.lastX = xpos, !.lastY = ypos]
    ELSE LET xoffset == (xpos - cam.lastX) * MouseSens
             yoffset == (cam.lastY - ypos) * MouseSens
         IN  updateCameraVectors(
                 [cam EXCEPT !.lastX = xpos, !.lastY = ypos,
                             !.Yaw = @ + xoffset,
                             !.Pitch = ConstrainPitch(@ + yoffset)])

\* Camera.HandleMouseMovement
HandleMouseMovement(cam, xpos, ypos) ==
    IF cam.firstMouse
    THEN [cam EXCEPT !.lastX = xpos, !.lastY = ypos, !.firstMouse = FALSE]
    ELSE LET xoffset == (xpos - cam.lastX) * MouseSens
             yoffset == (cam.lastY - ypos) * MouseSens
         IN  updateCameraVectors(
                 [cam EXCEPT !.lastX = xpos, !.lastY = ypos,
                             !.Yaw = @ + xoffset,
                             !.Pitch = ConstrainPitch(@ + yoffset)])

\* main.go:198-203  the pitch constraint of the inline cursor callback
ConstrainPitchInline(pitch) ==
    LET p == IF pitch > PitchLimit THEN PitchLimit ELSE pitch
    IN  IF p < -PitchLimit THEN -PitchLimit ELSE p

\* A mutant of CursorPosCallback: the baseline is not seeded on the first
\* sample, only the flag is cleared
CursorPosCallbackNoSeed(cam, xpos, ypos) ==
    LET xoffset == (xpos - cam.lastX) * MouseSens
        yoffset == (cam.lastY - ypos) * MouseSens
    IN  updateCameraVectors(
            [cam EXCEPT !.lastX = xpos, !.lastY = ypos, !.firstMouse = FALSE,
                        !.Yaw = @ + xoffset,
                        !.Pitch = ConstrainPitchInline(@ + yoffset)])

\* main.go:180-206  the cursor callback main installs: on the first sample
\* it seeds the baseline and falls through
CursorPosCallback(cam, xpos, ypos) ==
    LET seeded  == IF cam.firstMouse
                   THEN [cam EXCEPT !.lastX = xpos, !.lastY = ypos,
                                    !.firstMouse = FALSE]
                   ELSE cam
        xoffset == (xpos - seeded.lastX) * MouseSens
        yoffset == (seeded.lastY - ypos) * MouseSens
    IN  updateCameraVectors(
            [seeded EXCEPT !.lastX = xpos, !.lastY = ypos,
                           !.Yaw = @ + xoffset,
                           !.Pitch = ConstrainPitchInline(@ + yoffset)])

\* the four movement keys
Keys == {"W", "S", "A", "D"}

\* A mutant of HandleKeyboard: the S key moves forward like the W key
HandleKeyboardSForward(cam, pressed, dt) ==
    LET cameraSpeed == dt * MovementSpeed
        p1 == IF "W" \in pressed
              THEN Add(cam.Position, Mul(cam.Front, cameraSpeed)) ELSE cam.Position
        p2 == IF "S" \in pressed THEN Add(p1, Mul(cam.Front, cameraSpeed)) ELSE p1
        p3 == IF "A" \in pressed THEN Sub(p2, Mul(cam.Right, cameraSpeed)) ELSE p2
        p4 == IF "D" \in pressed THEN Add(p3, Mul(cam.Right, cameraSpeed)) ELSE p3
    IN  [cam EXCEPT !.Position = p4]

\* Camera.HandleKeyboard
HandleKeyboard(cam, pressed, dt) ==
    LET cameraSpeed == dt * MovementSpeed
        p1 == IF "W" \in pressed
              THEN Add(cam.Position, Mul(cam.Front, cameraSpeed)) ELSE cam.Position
        p2 == IF "S" \in pressed THEN Sub(p1, Mul(cam.Front, cameraSpeed)) ELSE p1
        p3 == IF "A" \in pressed THEN Sub(p2, Mul(cam.Right, cameraSpeed)) ELSE p2
        p4 == IF "D" \in pressed THEN Add(p3, Mul(cam.Right, cameraSpeed)) ELSE p3
    IN  [cam EXCEPT !.Position = p4]

\* main.go:296-309  the camera movement of the render loop
LoopMovement(cam, pressed, dt) ==
    LET cameraSpeed == dt * MovementSpeed
        p1 == IF "W" \in pressed
              THEN Add(cam.Position, Mul(cam.Front, cameraSpeed)) ELSE cam.Position
        p2 == IF "S" \in pressed THEN Sub(p1, Mul(cam.Front, cameraSpeed)) ELSE p1
        p3 == IF "A" \in pressed THEN Sub(p2, Mul(cam.Right, cameraSpeed)) ELSE p2
        p4 == IF "D" \in pressed THEN Add(p3, Mul(cam.Right, cameraSpeed)) ELSE p3
    IN  [cam EXCEPT !.Position = p4]

\* main.go:173-174  main's camera: NewCamera moved back to z = 15
MainCamera == [NewCamera EXCEPT !.Position = Vec3(0, 0, 15 * PosScale)]
---------------------------------------------------------------------------
(* FPSCounter (src/main.go) *)

\* NewFPSCounter, lastUpdate being glfw.GetTime() at construction
NewFPSCounter(now) == [lastUpdate |-> now, frameCount |-> 0, fps |-> 0]

\* A mutant of WindowClosed: the window is half as long
WindowClosedEarly(elapsed) == elapsed >= Window \div 2

\* main.go:126  currentTime-fc.lastUpdate >= 0.25
WindowClosed(elapsed) == elapsed >= Window

\* A mutant of InstantFps: the frame count is not divided by the elapsed time
InstantFpsUndivided(frameCount, elapsed) == frameCount * FpsScale

\* main.go:128  float64(fc.frameCount) / (currentTime - fc.lastUpdate)
InstantFps(frameCount, elapsed) ==
    RoundDiv(frameCount * FpsScale * TicksPerSecond, elapsed)

\* A mutant of Smooth: the weights of the moving average are exchanged
SmoothSwapped(old, fps) ==
    IF old = 0 THEN fps ELSE RoundDiv(old * 1 + fps * 9, 10)

\* main.go:131-135  the first reading, then the exponential moving average
Smooth(old, fps) ==
    IF old = 0 THEN fps ELSE RoundDiv(old * 9 + fps * 1, 10)

\* A mutant of Update: the frame is counted after the rate is computed
UpdateCountsLate(f, currentTime) ==
    LET elapsed == currentTime - f.lastUpdate
    IN  IF WindowClosed(elapsed)
        THEN LET fps == InstantFps(f.frameCount, elapsed)
                 new == Smooth(f.fps, fps)
             IN  [fc     |-> [fps |-> new, frameCount |-> 0,
                              lastUpdate |-> currentTime],
                  ret    |-> new,
                  branch |-> IF f.fps = 0 THEN "direct" ELSE "ema",
                  rate   |-> <<f.frameCount, elapsed>>]
        ELSE [fc     |-> [f EXCEPT !.frameCount = @ + 1],
              ret    |-> f.fps,
              branch |-> "none",
              rate   |-> <<>>]

\* FPSCounter.Update: the counter after the call (fc), the value returned
\* (ret), the branch taken at the window boundary (branch) and the operands
\* of the division of main.go:128 when it is executed (rate)
Update(f, currentTime) ==
    LET counted == [f EXCEPT !.frameCount = @ + 1]
        elapsed == currentTime - counted.lastUpdate
    IN  IF WindowClosed(elapsed)
        THEN LET fps == InstantFps(counted.frameCount, elapsed)
                 new == Smooth(counted.fps, fps)
             IN  [fc     |-> [fps |-> new, frameCount |-> 0,
                              lastUpdate |-> currentTime],
                  ret    |-> new,
                  branch |-> IF counted.fps = 0 THEN "direct" ELSE "ema",
                  rate   |-> <<counted.frameCount, elapsed>>]
        ELSE [fc     |-> counted,
              ret    |-> counted.fps,
              branch |-> "none",
              rate   |-> <<>>]
---------------------------------------------------------------------------
(* Bounds and input sets *)

\* key-movement steps explored in SpecCamera
MaxKeySteps == 1
\* Update calls explored in SpecFps
MaxCalls == 5
\* ticks explored in SpecFps60
MaxTicks == 130
\* render-loop iterations explored in Spec
MaxFrames == 3

\* cursor samples (pixels)
CursorXs == {0, 300}
CursorYs == {0, 900}
\* the frame time of a key-movement step: 1/60 s
DeltaTimes == {TicksPerSecond \div 60}
\* clock readings handed to Update, in any order
ClockReadings == {0, 4, 59, 60, 61, 124, 200}
\* the period of a 60 fps caller
FramePeriod == TicksPerSecond \div 60
\* what main() spends between glfw.Init and the render loop
StartupTimes == {Window, 2 * TicksPerSecond}
\* how long a render-loop iteration takes
FrameGaps == {FramePeriod, Window}
\* the key states the render loop sees
LoopKeys == {{}, {"W"}, {"W", "D"}}
\* the cursor samples one PollEvents delivers
LoopCursor == {<<>>, <<<<0, 0>>>>, <<<<300, 900>>>>}

---------------------------------------------------------------------------
(* The state machine *)

NoOp == [name |-> "none", x |-> 0, y |-> 0, keys |-> {}, dt |-> 0, t |-> 0,
         branch |-> "none", rate |-> <<>>]

\* windows: FPS windows closed; direct: times the first-reading branch ran;
\* first: time of the first Update of a 60 fps caller; cursors: cursor samples
\* delivered (0, 1, or 2 for two and more); loopStart: the clock when the
\* render loop was entered; frameStart, prevFrame: the clock when the latest
\* iteration and the one before it began (loopStart before the first);
\* winRet: the values Update has returned inside the current window
NoHist == [windows |-> 0, direct |-> 0, first |-> 0, cursors |-> 0,
           loopStart |-> 0, frameStart |-> 0, prevFrame |-> 0, winRet |-> {}]

\* the history after an Update call with outcome r
FpsHist(h, r) ==
    [h EXCEPT !.windows = @ + (IF r.branch = "none" THEN 0 ELSE 1),
              !.direct = @ + (IF r.branch = "direct" THEN 1 ELSE 0),
              !.winRet = IF r.branch = "none" THEN @ \cup {r.ret} ELSE {}]

Min(a, b) == IF a <= b THEN a ELSE b

\* the state of main() right after glfw.Init, before anything is built
InitCommon ==
    /\ c = NewCamera
    /\ camera = MainCamera
    /\ fc = NewFPSCounter(0)
    /\ ret = 0
    /\ clock = 0
    /\ lastFrame = 0
    /\ deltaTime = 0
    /\ shouldClose = FALSE
    /\ op = NoOp
    /\ view = <<>>
    /\ n = 0

(* ---- the two cameras side by side: SpecCamera ---- *)

InitCamera == InitCommon /\ pc = "camera" /\ hist = NoHist

\* one cursor sample, handed to Camera.HandleMouseMovement (c) and to
\* main's cursor callback (camera)
CursorMoved ==
    \E xpos \in CursorXs, ypos \in CursorYs :
        /\ c' = HandleMouseMovement(c, xpos, ypos)
        /\ camera' = CursorPosCallback(camera, xpos, ypos)
        /\ op' = [NoOp EXCEPT !.name = "cursor", !.x = xpos, !.y = ypos]
        /\ view' = <<>>
        /\ hist' = [hist EXCEPT !.cursors = Min(2, @ + 1)]
        /\ UNCHANGED <<fc, ret, clock, lastFrame, deltaTime, shouldClose, pc, n>>

\* one key-movement step, run by Camera.HandleKeyboard (c) and by the
\* render loop's movement code (camera)
KeyStep ==
    /\ n < MaxKeySteps
    /\ \E pressed \in SUBSET Keys, dt \in DeltaTimes :
        /\ c' = HandleKeyboard(c, pressed, dt)
        /\ camera' = LoopMovement(camera, pressed, dt)
        /\ op' = [NoOp EXCEPT !.name = "keys", !.keys = pressed, !.dt = dt]
    /\ view' = <<>>
    /\ n' = n + 1
    /\ UNCHANGED <<fc, ret, clock, lastFrame, deltaTime, shouldClose, pc, hist>>

\* the renderer reads the view matrix of both cameras
ViewRead ==
    /\ view = <<>>
    /\ view' = <<GetViewMatrix(c), GetViewMatrix(camera)>>
    /\ op' = [NoOp EXCEPT !.name = "view"]
    /\ UNCHANGED <<c, camera, fc, ret, clock, lastFrame, deltaTime, shouldClose,
                   pc, n, hist>>

NextCamera == CursorMoved \/ KeyStep \/ ViewRead

SpecCamera == InitCamera /\ [][NextCamera]_vars

(* ---- the FPS counter under arbitrary clock readings: SpecFps ---- *)

InitFps ==
    /\ InitCommon
    /\ pc = "fps"
    /\ hist = NoHist

\* the counter is built at any clock reading
FpsConstruct ==
    /\ op.name = "none"
    /\ \E now \in ClockReadings :
        /\ clock' = now
        /\ fc' = NewFPSCounter(now)
        /\ op' = [NoOp EXCEPT !.name = "new", !.t = now]
    /\ UNCHANGED <<c, camera, ret, lastFrame, deltaTime, shouldClose, pc, view, n, hist>>

\* one call of Update, glfw.GetTime() returning any reading
FpsUpdate ==
    /\ op.name # "none"
    /\ n < MaxCalls
    /\ \E now \in ClockReadings :
        LET r == Update(fc, now)
        IN  /\ clock' = now
            /\ fc' = r.fc
            /\ ret' = r.ret
            /\ op' = [NoOp EXCEPT !.name = "update", !.t = now,
                                  !.branch = r.branch, !.rate = r.rate]
            /\ hist' = FpsHist(hist, r)
    /\ n' = n + 1
    /\ UNCHANGED <<c, camera, lastFrame, deltaTime, shouldClose, pc, view>>

NextFps == FpsConstruct \/ FpsUpdate

SpecFps == InitFps /\ [][NextFps]_vars

(* ---- the FPS counter called exactly every 1/60 s: SpecFps60 ---- *)

\* the counter is built at time 0; the first call comes hist.first later,
\* at most one frame period
InitFps60 ==
    /\ InitCommon
    /\ pc = "fps60"
    /\ \E offset \in 0..FramePeriod : hist = [NoHist EXCEPT !.first = offset]

Tick60 ==
    /\ n < MaxTicks
    /\ LET now == hist.first + n * FramePeriod
           r   == Update(fc, now)
       IN  /\ clock' = now
           /\ fc' = r.fc
           /\ ret' = r.ret
           /\ op' = [NoOp EXCEPT !.name = "update", !.t = now,
                                 !.branch = r.branch, !.rate = r.rate]
           /\ hist' = FpsHist(hist, r)
    /\ n' = n + 1
    /\ UNCHANGED <<c, camera, lastFrame, deltaTime, shouldClose, pc, view>>

NextFps60 == Tick60

SpecFps60 == InitFps60 /\ [][NextFps60]_vars

(* ---- main(): Spec ---- *)

Init == InitCommon /\ pc = "init" /\ hist = NoHist

RECURSIVE DeliverCursor(_, _)
\* glfw.PollEvents: the cursor callback runs once per queued sample
DeliverCursor(cam, samples) ==
    IF samples = <<>> THEN cam
    ELSE DeliverCursor(CursorPosCallback(cam, Head(samples)[1], Head(samples)[2]),
                       Tail(samples))

\* main.go:149-281  everything before the render loop: it takes time, and the
\* FPS counter is created last
Startup ==
    /\ pc = "init"
    /\ \E took \in StartupTimes :
        /\ clock' = clock + took
        /\ fc' = NewFPSCounter(clock + took)
        /\ hist' = [hist EXCEPT !.loopStart = clock + took,
                                !.frameStart = clock + took,
                                !.prevFrame = clock + took]
    /\ lastFrame' = 0
    /\ deltaTime' = 0
    /\ pc' = "loop"
    /\ op' = [NoOp EXCEPT !.name = "startup"]
    /\ UNCHANGED <<c, camera, ret, shouldClose, view, n>>

\* main.go:284-346  one iteration of the render loop
Frame ==
    /\ pc = "loop"
    /\ ~shouldClose
    /\ n < MaxFrames
    /\ \E escape \in BOOLEAN, pressed \in LoopKeys, took \in FrameGaps,
          samples \in LoopCursor :
        LET currentFrame == clock
            dt    == currentFrame - lastFrame
            r     == Update(fc, clock)
            moved == LoopMovement(camera, pressed, dt)
        IN  /\ deltaTime' = dt
            /\ lastFrame' = currentFrame
            /\ shouldClose' = (shouldClose \/ escape)
            /\ fc' = r.fc
            /\ ret' = r.ret
            /\ view' = <<GetViewMatrix(moved)>>
            /\ camera' = DeliverCursor(moved, samples)
            /\ clock' = clock + took
            /\ op' = [NoOp EXCEPT !.name = "frame", !.keys = pressed, !.dt = dt,
                                  !.t = currentFrame, !.branch = r.branch,
                                  !.rate = r.rate]
            /\ hist' = [FpsHist(hist, r) EXCEPT
                          !.prevFrame = hist.frameStart,
                          !.frameStart = currentFrame,
                          !.cursors = Min(2, @ + Len(samples))]
    /\ n' = n + 1
    /\ UNCHANGED <<c, pc>>

\* the loop ends once the close flag is set
Exit ==
    /\ pc = "loop"
    /\ shouldClose
    /\ pc' = "done"
    /\ op' = [NoOp EXCEPT !.name = "exit"]
    /\ UNCHANGED <<c, camera, fc, ret, clock, lastFrame, deltaTime, shouldClose,
                   view, n, hist>>

Next == Startup \/ Frame \/ Exit

Spec == Init /\ [][Next]_vars
---------------------------------------------------------------------------
(* The claims *)

(* C1 (SpecCamera).  Whatever cursor samples arrive, the pitch of both
   cameras (the one driven by Camera.HandleMouseMovement and the one driven
   by main's cursor callback) lies in [-89, 89] degrees in every state. *)
C1_PitchClamped ==
    /\ -PitchLimit <= c.Pitch /\ c.Pitch <= PitchLimit
    /\ -PitchLimit <= camera.Pitch /\ camera.Pitch <= PitchLimit

\* a sample that would take the pitch to -90 degrees left it at the limit
C1_Witness ==
    /\ op.name = "cursor"
    /\ c.Pitch = -PitchLimit
    /\ camera.Pitch = -PitchLimit

(* C2 (SpecCamera).  The first cursor sample after construction, whatever
   its coordinates, changes nothing of either camera but lastX, lastY (the
   baseline, set to the sample) and firstMouse (cleared): Yaw, Pitch,
   Position and the basis vectors stay as they were. *)
C2_FirstSampleOnlySeeds ==
    [][(op'.name = "cursor" /\ hist.cursors = 0) =>
          /\ c' = [c EXCEPT !.lastX = op'.x, !.lastY = op'.y,
                            !.firstMouse = FALSE]
          /\ camera' = [camera EXCEPT !.lastX = op'.x, !.lastY = op'.y,
                                      !.firstMouse = FALSE]]_vars

\* the first sample arrived away from the origin, after the camera had moved
C2_Witness ==
    /\ op.name = "cursor"
    /\ hist.cursors = 1
    /\ op.x = 300 /\ op.y = 900
    /\ c.lastX = 300 /\ c.lastY = 900
    /\ camera.lastX = 300 /\ camera.lastY = 900
    /\ c.Position # NewCamera.Position
    /\ camera.Position # MainCamera.Position

(* C6 (SpecCamera).  The first-sample flag is one-way: firstMouse holds
   exactly as long as no cursor sample has been delivered, so it is true at
   construction, false after the first sample, and false in every later
   state, whatever cursor samples, key steps and view reads follow. *)
C6_FirstMouseOneWay ==
    /\ c.firstMouse <=> (hist.cursors = 0)
    /\ camera.firstMouse <=> (hist.cursors = 0)

\* tracking, several samples and a key step later, during a view read
C6_Witness ==
    /\ hist.cursors = 2
    /\ n >= 1
    /\ op.name = "view"
    /\ ~c.firstMouse
    /\ ~camera.firstMouse

\* the displacement the claim C7 gives for a key step
KeyDisplacement(cam, pressed, dt) ==
    LET speed   == MovementSpeed * dt
        forward == IF "W" \in pressed THEN 1 ELSE 0
        back    == IF "S" \in pressed THEN 1 ELSE 0
        left    == IF "A" \in pressed THEN 1 ELSE 0
        right   == IF "D" \in pressed THEN 1 ELSE 0
    IN  Add(Mul(cam.Front, speed * (forward - back)),
            Mul(cam.Right, speed * (right - left)))

(* C7 (SpecCamera).  A key step moves the position by
   speed * ((forward - back) * Front + (right - left) * Right), with
   speed = MovementSpeed * deltaTime, for each of the 16 key combinations,
   and changes nothing else of the camera. *)
C7_KeyStepDisplacement ==
    [][op'.name = "keys" =>
          /\ c' = [c EXCEPT !.Position =
                       Add(c.Position, KeyDisplacement(c, op'.keys, op'.dt))]
          /\ camera' = [camera EXCEPT !.Position =
                       Add(camera.Position,
                           KeyDisplacement(camera, op'.keys, op'.dt))]]_vars

\* forward and right were down while the camera looked away from its first
\* direction, and the camera moved along both axes
C7_Witness ==
    /\ op.name = "keys"
    /\ op.keys = {"W", "D"}
    /\ c.Yaw # InitialYaw
    /\ c.Pitch # 0
    /\ c.Position[1] # NewCamera.Position[1]
    /\ c.Position[2] # NewCamera.Position[2]
    /\ c.Position[3] # NewCamera.Position[3]

(* C10 (SpecCamera).  Fed the same cursor samples from the same initial
   camera, Camera.HandleMouseMovement and main's cursor callback agree on
   Yaw, Pitch, lastX, lastY and firstMouse after every sample. *)
C10_HandlersAgree ==
    /\ c.Yaw = camera.Yaw
    /\ c.Pitch = camera.Pitch
    /\ c.lastX = camera.lastX
    /\ c.lastY = camera.lastY
    /\ c.firstMouse = camera.firstMouse

\* right after the first sample, away from the origin, and later with the
\* orientation changed
C10_Witness ==
    /\ op.name = "cursor"
    /\ \/ hist.cursors = 1 /\ op.x # 0 /\ op.y # 0
       \/ hist.cursors = 2 /\ c.Yaw # InitialYaw /\ c.Pitch # 0

(* C4 (SpecFps).  An Update call made while currentTime - lastUpdate < 0.25 s
   leaves fps and lastUpdate as they were, adds one to frameCount, and
   returns the unchanged fps, which is what the call before it returned: the
   value changes only on a call that closes a window, so all the calls made
   inside one window return one single value. *)
C4_NoChangeInsideWindow ==
    /\ [](Cardinality(hist.winRet) <= 1)
    /\ [][(op'.name = "update" /\ op'.t - fc.lastUpdate < Window) =>
             /\ fc' = [fc EXCEPT !.frameCount = @ + 1]
             /\ ret' = fc.fps
             /\ (op.name = "update" => ret' = ret)]_vars

\* the third call inside a window, after an earlier window gave a reading
C4_Witness ==
    /\ op.name = "update"
    /\ op.branch = "none"
    /\ fc.frameCount >= 3
    /\ fc.fps > 0
    /\ ret = fc.fps

(* C5 (SpecFps).  An Update call with currentTime - lastUpdate >= 0.25 s
   computes instantFps = (frameCount + 1) / (currentTime - lastUpdate), the
   call itself counted; fps becomes instantFps when it was 0 and
   fps * 0.9 + instantFps * 0.1 otherwise; frameCount becomes 0, lastUpdate
   becomes currentTime, and the new fps is returned. *)
C5_WindowBoundary ==
    [][(op'.name = "update" /\ op'.t - fc.lastUpdate >= Window) =>
          LET elapsed    == op'.t - fc.lastUpdate
              instantFps == RoundDiv((fc.frameCount + 1) * FpsScale * TicksPerSecond,
                                     elapsed)
              smoothed   == IF fc.fps = 0 THEN instantFps
                            ELSE RoundDiv(9 * fc.fps + instantFps, 10)
          IN  /\ fc'.fps = smoothed
              /\ fc'.frameCount = 0
              /\ fc'.lastUpdate = op'.t
              /\ ret' = smoothed]_vars

\* a window of several frames closed onto an earlier reading
C5_Witness ==
    /\ op.name = "update"
    /\ op.branch = "ema"
    /\ op.rate # <<>>
    /\ op.rate[1] >= 2
    /\ fc.frameCount = 0
    /\ fc.lastUpdate = op.t
    /\ ret = fc.fps

(* C9 (SpecFps).  Whatever clock readings Update is given, going backward
   included, a rate is only computed from a frame count >= 1 and an elapsed
   time >= 0.25 s; fps is 0 until the first window closes and strictly
   positive ever after; and the first-reading branch (fps == 0) runs exactly
   once, when the first window closes. *)
C9_RateWellDefined ==
    /\ op.rate # <<>> => (op.rate[1] >= 1 /\ op.rate[2] >= Window)
    /\ hist.windows = 0 => (fc.fps = 0 /\ hist.direct = 0)
    /\ hist.windows >= 1 => (fc.fps > 0 /\ hist.direct = 1)
    /\ op.branch = "direct" => hist.windows = 1

\* two windows have closed and the clock has then gone backward
C9_Witness ==
    /\ op.name = "update"
    /\ hist.windows >= 2
    /\ op.t < fc.lastUpdate
    /\ fc.fps > 0

\* two seconds of ticks have elapsed since the first Update
TwoSecondsOfTicks == n >= 1 /\ (n - 1) * FramePeriod >= 2 * TicksPerSecond

(* C3 as stated (SpecFps60).  Called every 1/60 s, Update returns a value
   within 2% of 60 once two seconds of ticks have elapsed. *)
C3_Within2Percent ==
    TwoSecondsOfTicks =>
        /\ 100 * ret >= 98 * 60 * FpsScale
        /\ 100 * ret <= 102 * 60 * FpsScale

(* C3 as amended (SpecFps60).  Called every 1/60 s, the first call coming
   at most 1/60 s after construction, Update returns a value within 4% of 60
   once two seconds of ticks have elapsed. *)
C3_Within4Percent ==
    TwoSecondsOfTicks =>
        /\ 100 * ret >= 96 * 60 * FpsScale
        /\ 100 * ret <= 104 * 60 * FpsScale

\* two seconds in, the first call having come right at construction, the
\* value is still above 60
C3_Witness ==
    /\ TwoSecondsOfTicks
    /\ hist.first = 0
    /\ hist.windows >= 8
    /\ ret > 60 * FpsScale

(* C8 (Spec).  On every iteration of the render loop, the first included,
   deltaTime is the time elapsed since the previous iteration began (since
   the loop was entered, for the first): it is never the clock time that
   had accumulated before the loop started. *)
C8_DeltaTimeSincePreviousFrame ==
    op.name = "frame" =>
        /\ deltaTime >= 0
        /\ deltaTime = hist.frameStart - hist.prevFrame
        /\ (hist.loopStart > 0 /\ n = 1) => deltaTime # hist.loopStart

===========================================================================
